---- MODULE Spec2Model ----
(***************************************************************************)
(* Model of the auction server in src/server/index.js: the room registry   *)
(* (joinRoom / leaveRoom / broadcastToAuction), the bid handler            *)
(* POST /api/auctions/:id/bid, the WebSocket joinAuction handler, the      *)
(* one-second expiry sweep and the time-sync handler POST /api/time-sync.  *)
(* Every `await pool.query(...)` is a suspension point: the handler's      *)
(* steps before and after it are separate actions, and the statement       *)
(* executes at the store in between.                                       *)
(*                                                                         *)
(* Units: instants are milliseconds (Date), the DATETIME columns are       *)
(* seconds, amounts are whole cents (the resolution of DECIMAL(10,2)).     *)
(* Messages are recorded without their serverTime stamp.                   *)
(***************************************************************************)
EXTENDS Integers, Sequences, FiniteSets, TLC

\* ---------------------------------------------------------------- bounds
NumAuctions == 2      \* rows of the auctions table
NumConns    == 2      \* WebSocket connections
NumJoins    == 2      \* joinAuction messages handled in a run
NumBids     == 2      \* bid requests handled in a run
MaxPrice    == 3      \* largest amount a request carries
MaxTime     == 4      \* clock advances in a run, half a second each
MaxSyncs    == 2      \* time-sync requests answered in a run

MsPerSec      == 1000
HalfSec       == MsPerSec \div 2
SweepInterval == 1000   \* the delay given to setInterval

\* the last instant of the clock: from it on time still passes and the
\* interval still fires, but `now` is no longer counted
Horizon == MaxTime * HalfSec

Auctions == 1..NumAuctions
Conns    == 1..NumConns
Joins    == 1..NumJoins
Bids     == 1..NumBids
\* one sweep instance for every time the interval fires in a run
Sweeps   == 1..((MaxTime * HalfSec) \div SweepInterval)

\* ids a request can carry: 0 (falsy), the rows, and one id that has no row
RequestIds == 0..(NumAuctions + 1)
Amounts    == 0..MaxPrice

\* a number in a response body: a finite number or NaN
Num(n) == [nan |-> FALSE, value |-> n]
NaN    == [nan |-> TRUE, value |-> 0]

\* the clientTime of a time-sync request body, as `typeof` sees it: a number, a
\* string (one that Date parses to the instant `value`, or one that Date does
\* not parse), or something else ("undefined" when the field is absent)
ClientInstants == {0, MsPerSec}
ClientTimes ==
    [type : {"number"}, parses : {TRUE}, value : ClientInstants]
      \cup [type : {"string"}, parses : {TRUE}, value : ClientInstants]
      \cup [type : {"string"}, parses : {FALSE}, value : {0}]
      \cup [type : {"undefined", "object"}, parses : {FALSE}, value : {0}]
NoAuction  == 0       \* ws._auctionId when null / undefined

VARIABLES
    now,         \* the server clock, Date.now()
    db,          \* the auctions table: id -> row
    rooms,       \* the Map auctionId -> Set<ws>; its keys are DOMAIN rooms
    wsAuctionId, \* ws._auctionId of each connection
    readyState,  \* ws.readyState of each connection
    inbox,       \* the messages sent on each connection, in order
    published,   \* per auction id, the payloads handed to broadcastToAuction, in order
    bids,        \* the bid handler instances
    joins,       \* the joinAuction handler instances
    sweeps,      \* the sweep tick instances
    syncs        \* the answers of /api/time-sync, in order, each with its request

vars == <<now, db, rooms, wsAuctionId, readyState, inbox, published, bids, joins, sweeps,
          syncs>>

\* ------------------------------------------------------------- the clock
\* formatDateTime keeps the seconds and drops the milliseconds
formatDateTime(d) == d \div MsPerSec

\* new Date(auction.end_time): a DATETIME read back as an instant
DateOf(datetime) == datetime * MsPerSec

\* ------------------------------------------------------------- messages
BidUpdateMsg(id, amount) ==
    [type |-> "bidUpdate", auctionId |-> id, price |-> amount, status |-> "running"]

AuctionEndedMsg(id) ==
    [type |-> "auctionEnded", auctionId |-> id, price |-> 0, status |-> "ended"]

AuctionDataMsg(id, current_price, status) ==
    [type |-> "auctionData", auctionId |-> id, price |-> current_price, status |-> status]

\* ---------------------------------------------------------------- rooms
\* rooms.set(id, set)
MapSet(m, id, set) ==
    [k \in (DOMAIN m) \cup {id} |-> IF k = id THEN set ELSE m[k]]

\* rooms.delete(id)
MapDelete(m, id) == [k \in (DOMAIN m) \ {id} |-> m[k]]

\* joinRoom(ws, auctionId): the room map afterwards
joinRoomMap(ws, id) ==
    IF id = 0 THEN rooms
    ELSE LET had == IF id \in DOMAIN rooms THEN rooms[id] ELSE {}
         IN  MapSet(rooms, id, had \cup {ws})

\* joinRoom(ws, auctionId): ws._auctionId afterwards
joinRoomId(ws, id) ==
    IF id = 0 THEN wsAuctionId
    ELSE [wsAuctionId EXCEPT ![ws] = id]

\* leaveRoom without the rooms.delete(id) of an emptied set
leaveRoomKeepsEmptySet(ws) ==
    LET id == wsAuctionId[ws]
    IN  IF id = NoAuction THEN rooms
        ELSE IF id \notin DOMAIN rooms THEN rooms
        ELSE MapSet(rooms, id, rooms[id] \ {ws})

\* leaveRoom(ws): the room map afterwards
leaveRoomMap(ws) ==
    LET id == wsAuctionId[ws]
    IN  IF id = NoAuction THEN rooms
        ELSE IF id \notin DOMAIN rooms THEN rooms
        ELSE LET set == rooms[id] \ {ws}
             IN  IF Cardinality(set) = 0
                 THEN MapDelete(rooms, id)
                 ELSE MapSet(rooms, id, set)

\* leaveRoom(ws): ws._auctionId afterwards
leaveRoomId(ws) ==
    IF wsAuctionId[ws] = NoAuction THEN wsAuctionId
    ELSE [wsAuctionId EXCEPT ![ws] = NoAuction]

\* broadcastToAuction without the test of readyState: every member is sent to
broadcastToEveryMember(id, payload) ==
    IF id = 0 THEN inbox
    ELSE IF id \notin DOMAIN rooms THEN inbox
    ELSE [c \in Conns |->
            IF c \in rooms[id] THEN Append(inbox[c], payload) ELSE inbox[c]]

\* broadcastToAuction(auctionId, payload): what each connection has been sent
broadcastToAuction(id, payload) ==
    IF id = 0 THEN inbox
    ELSE IF id \notin DOMAIN rooms THEN inbox
    ELSE [c \in Conns |->
            IF c \in rooms[id] /\ readyState[c] = "OPEN"
            THEN Append(inbox[c], payload)
            ELSE inbox[c]]

\* ----------------------------------------------------------------- Init
\* a bid handler instance: its position, the request's parameters, the `now` it
\* took, its answer, and how many UPDATEs and broadcasts it has made so far
IdleBid   == [pc |-> "idle", id |-> 0, isNumber |-> TRUE, amount |-> 0, now |-> 0,
              result |-> "none", writes |-> 0, casts |-> 0]
IdleJoin  == [pc |-> "idle", ws |-> 0, id |-> 0, found |-> FALSE,
              price |-> 0, status |-> "none"]
DoneJoin  == [pc |-> "done", ws |-> 0, id |-> 0, found |-> FALSE,
              price |-> 0, status |-> "none"]
\* a sweep tick: its position, the formatted `now` of its SELECT, the rows it has
\* still to go through, and the id whose UPDATE it has completed and not yet
\* broadcast
IdleSweep == [pc |-> "idle", nowStr |-> 0, rows |-> <<>>, wrote |-> NoAuction]
DoneSweep == [pc |-> "done", nowStr |-> 0, rows |-> <<>>, wrote |-> NoAuction]
\* a tick that ended in the catch of line 320
FailedSweep == [pc |-> "failed", nowStr |-> 0, rows |-> <<>>, wrote |-> NoAuction]

\* the rows the server finds at start: row 1 is the seeded auction of
\* ensureSchema (already started, a positive price), row 2 opens a second later
InitRow(a) ==
    [start_time    |-> a - 1,
     end_time      |-> a,
     current_price |-> IF a = 1 THEN 1 ELSE 0,
     status        |-> IF a = 1 THEN "running" ELSE "pending"]

Init ==
    /\ now = 0
    /\ db = [a \in Auctions |-> InitRow(a)]
    /\ rooms = <<>>
    /\ wsAuctionId = [c \in Conns |-> NoAuction]
    /\ readyState = [c \in Conns |-> "OPEN"]
    /\ inbox = [c \in Conns |-> <<>>]
    /\ published = [a \in Auctions |-> <<>>]
    /\ bids = [b \in Bids |-> IdleBid]
    /\ joins = [j \in Joins |-> IdleJoin]
    /\ sweeps = [s \in Sweeps |-> IdleSweep]
    /\ syncs = <<>>

\* ---------------------------------------------------------------- clock
\* lines 296-299 and 323: time passes; every SweepInterval the interval fires
\* and a new sweep instance takes and formats its `now`
SweepStart(t) ==
    IF t % SweepInterval = 0
    THEN [sweeps EXCEPT ![t \div SweepInterval] =
             [IdleSweep EXCEPT !.pc = "select", !.nowStr = formatDateTime(t)]]
    ELSE sweeps

Tick ==
    /\ now < Horizon
    /\ now' = now + HalfSec
    /\ sweeps' = SweepStart(now + HalfSec)
    /\ UNCHANGED <<db, rooms, wsAuctionId, readyState, inbox, published, bids, joins, syncs>>

\* Refire after a tick that completed only: a tick that ended in the catch is
\* the last one of its instance
RefireAfterSuccessOnly(s) ==
    /\ now = Horizon
    /\ sweeps[s].pc = "done"
    /\ sweeps' = [sweeps EXCEPT ![s] =
                     [IdleSweep EXCEPT !.pc = "select", !.nowStr = formatDateTime(now)]]
    /\ UNCHANGED <<now, db, rooms, wsAuctionId, readyState, inbox, published, bids, joins, syncs>>

\* lines 296-299 and 323 past the horizon: the interval fires again, whether
\* the tick before completed or failed
Refire(s) ==
    /\ now = Horizon
    /\ sweeps[s].pc \in {"done", "failed"}
    /\ sweeps' = [sweeps EXCEPT ![s] =
                     [IdleSweep EXCEPT !.pc = "select", !.nowStr = formatDateTime(now)]]
    /\ UNCHANGED <<now, db, rooms, wsAuctionId, readyState, inbox, published, bids, joins, syncs>>

\* ------------------------------------------------------- the bid handler
\* BidStart validating the id only: the amount is left to the comparison with
\* the current price
BidStartChecksIdOnly(b, id, isNumber, amount) ==
    /\ bids[b].pc = "idle"
    /\ \A other \in Bids : other < b => bids[other].pc # "idle"
    /\ IF id = 0
       THEN bids' = [bids EXCEPT ![b] = [IdleBid EXCEPT !.pc = "done", !.id = id,
                                            !.isNumber = isNumber, !.amount = amount,
                                            !.result = "InvalidInput"]]
       ELSE bids' = [bids EXCEPT ![b] = [IdleBid EXCEPT !.pc = "select", !.id = id,
                                            !.isNumber = isNumber, !.amount = amount,
                                            !.now = now]]
    /\ UNCHANGED <<now, db, rooms, wsAuctionId, readyState, inbox, published, joins, sweeps, syncs>>

\* lines 184-189: parameter validation, then `now` is taken
BidStart(b, id, isNumber, amount) ==
    /\ bids[b].pc = "idle"
    /\ \A other \in Bids : other < b => bids[other].pc # "idle"
    /\ IF id = 0 \/ ~isNumber \/ amount <= 0
       THEN bids' = [bids EXCEPT ![b] = [IdleBid EXCEPT !.pc = "done", !.id = id,
                                            !.isNumber = isNumber, !.amount = amount,
                                            !.result = "InvalidInput"]]
       ELSE bids' = [bids EXCEPT ![b] = [IdleBid EXCEPT !.pc = "select", !.id = id,
                                            !.amount = amount, !.now = now]]
    /\ UNCHANGED <<now, db, rooms, wsAuctionId, readyState, inbox, published, joins, sweeps, syncs>>

\* BidCheck without the comparison of `now` with end_time: the handler trusts
\* the status the sweep maintains
BidCheckTrustsStatus(b) ==
    IF bids[b].id \notin DOMAIN db THEN "NotFound"
    ELSE LET auction == db[bids[b].id]
         IN  IF bids[b].now < DateOf(auction.start_time) THEN "NotStarted"
             ELSE IF auction.status = "ended" THEN "Closed"
             ELSE IF bids[b].amount <= auction.current_price THEN "PriceTooLow"
             ELSE "pass"

\* lines 191-211: the SELECT and the checks made on the row it returned
BidCheck(b) ==
    IF bids[b].id \notin DOMAIN db THEN "NotFound"
    ELSE LET auction == db[bids[b].id]
         IN  IF bids[b].now < DateOf(auction.start_time) THEN "NotStarted"
             ELSE IF bids[b].now > DateOf(auction.end_time) \/ auction.status = "ended"
                  THEN "Closed"
             ELSE IF bids[b].amount <= auction.current_price THEN "PriceTooLow"
             ELSE "pass"

\* lines 214-217: the row after the UPDATE
BidWrite(row, amount) ==
    [row EXCEPT !.current_price = amount, !.status = "running"]

\* BidSelect with the UPDATE issued before the price comparison: a bid that is
\* not higher than the current price is refused after its amount was stored
BidSelectWritesBeforePriceCheck(b) ==
    /\ bids[b].pc = "select"
    /\ LET verdict == BidCheck(b)
       IN  IF verdict = "pass"
           THEN /\ bids' = [bids EXCEPT ![b].pc = "update"]
                /\ db' = db
           ELSE IF verdict = "PriceTooLow"
           THEN /\ bids' = [bids EXCEPT ![b].pc = "done", ![b].result = verdict,
                                        ![b].writes = @ + 1]
                /\ db' = [db EXCEPT ![bids[b].id] = BidWrite(db[bids[b].id], bids[b].amount)]
           ELSE /\ bids' = [bids EXCEPT ![b].pc = "done", ![b].result = verdict]
                /\ db' = db
    /\ UNCHANGED <<now, rooms, wsAuctionId, readyState, inbox, published, joins, sweeps, syncs>>

BidSelect(b) ==
    /\ bids[b].pc = "select"
    /\ LET verdict == BidCheck(b)
       IN  IF verdict = "pass"
           THEN bids' = [bids EXCEPT ![b].pc = "update"]
           ELSE bids' = [bids EXCEPT ![b].pc = "done", ![b].result = verdict]
    /\ UNCHANGED <<now, db, rooms, wsAuctionId, readyState, inbox, published, joins, sweeps, syncs>>

\* lines 236-239: a query that throws ends the request with status 500
BidQueryFails(b) ==
    /\ bids[b].pc \in {"select", "update"}
    /\ bids' = [bids EXCEPT ![b].pc = "done", ![b].result = "StoreUnavailable"]
    /\ UNCHANGED <<now, db, rooms, wsAuctionId, readyState, inbox, published, joins, sweeps, syncs>>

\* BidUpdate with the UPDATE not awaited: the handler goes on to the broadcast
\* while the statement is still on its way to the store
BidUpdateNotAwaited(b) ==
    /\ bids[b].pc = "update"
    /\ bids' = [bids EXCEPT ![b].pc = "publish"]
    /\ UNCHANGED <<now, db, rooms, wsAuctionId, readyState, inbox, published, joins, sweeps, syncs>>

BidUpdate(b) ==
    /\ bids[b].pc = "update"
    /\ db' = [db EXCEPT ![bids[b].id] = BidWrite(db[bids[b].id], bids[b].amount)]
    /\ bids' = [bids EXCEPT ![b].pc = "publish", ![b].writes = @ + 1]
    /\ UNCHANGED <<now, rooms, wsAuctionId, readyState, inbox, published, joins, sweeps, syncs>>

\* lines 219-235: the broadcast and the response
BidPublish(b) ==
    /\ bids[b].pc = "publish"
    /\ inbox' = broadcastToAuction(bids[b].id, BidUpdateMsg(bids[b].id, bids[b].amount))
    /\ published' = [published EXCEPT ![bids[b].id] =
                        Append(@, BidUpdateMsg(bids[b].id, bids[b].amount))]
    /\ bids' = [bids EXCEPT ![b].pc = "done", ![b].result = "OK", ![b].casts = @ + 1]
    /\ UNCHANGED <<now, db, rooms, wsAuctionId, readyState, joins, sweeps, syncs>>

\* ------------------------------------------------------ the join handler
\* lines 258-263: the message is parsed and the connection joins the room
JoinAuction(j, ws, id) ==
    /\ joins[j].pc = "idle"
    /\ \A other \in Joins : other < j => joins[other].pc # "idle"
    /\ readyState[ws] = "OPEN"
    /\ rooms' = joinRoomMap(ws, id)
    /\ wsAuctionId' = joinRoomId(ws, id)
    /\ joins' = [joins EXCEPT ![j] = IF id = 0 THEN DoneJoin
                                       ELSE [IdleJoin EXCEPT !.pc = "select", !.ws = ws, !.id = id]]
    /\ UNCHANGED <<now, db, readyState, inbox, published, bids, sweeps, syncs>>

\* lines 268-271: the SELECT of the auction's row
JoinSelect(j) ==
    /\ joins[j].pc = "select"
    /\ joins' = [joins EXCEPT ![j].pc = "send",
                              ![j].found = joins[j].id \in DOMAIN db,
                              ![j].price = IF joins[j].id \in DOMAIN db
                                           THEN db[joins[j].id].current_price ELSE 0,
                              ![j].status = IF joins[j].id \in DOMAIN db
                                            THEN db[joins[j].id].status ELSE "none"]
    /\ UNCHANGED <<now, db, rooms, wsAuctionId, readyState, inbox, published, bids, sweeps, syncs>>

\* lines 283-285: a SELECT that throws is logged and nothing is sent
JoinQueryFails(j) ==
    /\ joins[j].pc = "select"
    /\ joins' = [joins EXCEPT ![j] = DoneJoin]
    /\ UNCHANGED <<now, db, rooms, wsAuctionId, readyState, inbox, published, bids, sweeps, syncs>>

\* lines 272-282: the snapshot is sent if the row exists and the socket is open
JoinSend(j) ==
    /\ joins[j].pc = "send"
    /\ inbox' = IF joins[j].found /\ readyState[joins[j].ws] = "OPEN"
                THEN [inbox EXCEPT ![joins[j].ws] =
                        Append(@, AuctionDataMsg(joins[j].id, joins[j].price, joins[j].status))]
                ELSE inbox
    /\ joins' = [joins EXCEPT ![j] = DoneJoin]
    /\ UNCHANGED <<now, db, rooms, wsAuctionId, readyState, published, bids, sweeps, syncs>>

\* lines 289-292: the connection closes
Close(ws) ==
    /\ readyState[ws] = "OPEN"
    /\ readyState' = [readyState EXCEPT ![ws] = "CLOSED"]
    /\ rooms' = leaveRoomMap(ws)
    /\ wsAuctionId' = leaveRoomId(ws)
    /\ UNCHANGED <<now, db, inbox, published, bids, joins, sweeps, syncs>>

\* ------------------------------------------------------------- the sweep
RECURSIVE RowsFrom(_, _)
\* the ids from a up that the sweep's SELECT matches, in id order
RowsFrom(a, nowStr) ==
    IF a > NumAuctions THEN <<>>
    ELSE IF db[a].status # "ended" /\ db[a].end_time <= nowStr
         THEN <<a>> \o RowsFrom(a + 1, nowStr)
         ELSE RowsFrom(a + 1, nowStr)

\* SweepSelect with `status = 'running'` in place of `status != 'ended'`: a row
\* still pending when its end_time passes is never matched
SweepSelectRunningOnly(s) ==
    /\ sweeps[s].pc = "select"
    /\ LET rows == SelectSeq([a \in 1..NumAuctions |-> a],
                             LAMBDA a : /\ db[a].status = "running"
                                        /\ db[a].end_time <= sweeps[s].nowStr)
       IN  sweeps' = [sweeps EXCEPT ![s] = IF Len(rows) > 0
                                           THEN [IdleSweep EXCEPT !.pc = "update", !.rows = rows]
                                           ELSE DoneSweep]
    /\ UNCHANGED <<now, db, rooms, wsAuctionId, readyState, inbox, published, bids, joins, syncs>>

\* SweepSelect without `status != 'ended'`: every row whose end_time has passed
SweepSelectAllExpired(s) ==
    /\ sweeps[s].pc = "select"
    /\ LET rows == SelectSeq([a \in 1..NumAuctions |-> a],
                             LAMBDA a : db[a].end_time <= sweeps[s].nowStr)
       IN  sweeps' = [sweeps EXCEPT ![s] = IF Len(rows) > 0
                                           THEN [IdleSweep EXCEPT !.pc = "update", !.rows = rows]
                                           ELSE DoneSweep]
    /\ UNCHANGED <<now, db, rooms, wsAuctionId, readyState, inbox, published, bids, joins, syncs>>

\* lines 300-304: the SELECT of the expired rows
SweepSelect(s) ==
    /\ sweeps[s].pc = "select"
    /\ LET rows == RowsFrom(1, sweeps[s].nowStr)
       IN  sweeps' = [sweeps EXCEPT ![s] = IF Len(rows) > 0
                                           THEN [IdleSweep EXCEPT !.pc = "update", !.rows = rows]
                                           ELSE DoneSweep]
    /\ UNCHANGED <<now, db, rooms, wsAuctionId, readyState, inbox, published, bids, joins, syncs>>

\* lines 320-322: a query that throws ends the tick; the interval goes on
SweepQueryFails(s) ==
    /\ sweeps[s].pc \in {"select", "update"}
    /\ sweeps' = [sweeps EXCEPT ![s] = FailedSweep]
    /\ UNCHANGED <<now, db, rooms, wsAuctionId, readyState, inbox, published, bids, joins, syncs>>

\* lines 306-309: the row after the UPDATE
SweepWrite(row) == [row EXCEPT !.status = "ended"]

SweepUpdate(s) ==
    /\ sweeps[s].pc = "update"
    /\ db' = [db EXCEPT ![Head(sweeps[s].rows)] = SweepWrite(db[Head(sweeps[s].rows)])]
    /\ sweeps' = [sweeps EXCEPT ![s].pc = "publish", ![s].wrote = Head(sweeps[s].rows)]
    /\ UNCHANGED <<now, rooms, wsAuctionId, readyState, inbox, published, bids, joins, syncs>>

\* lines 310-318: the broadcast, then the next row of the loop
SweepPublish(s) ==
    /\ sweeps[s].pc = "publish"
    /\ LET id == Head(sweeps[s].rows)
           rest == Tail(sweeps[s].rows)
       IN  /\ inbox' = broadcastToAuction(id, AuctionEndedMsg(id))
           /\ published' = [published EXCEPT ![id] = Append(@, AuctionEndedMsg(id))]
           /\ sweeps' = [sweeps EXCEPT ![s] = IF Len(rest) > 0
                                               THEN [IdleSweep EXCEPT !.pc = "update", !.rows = rest]
                                               ELSE DoneSweep]
    /\ UNCHANGED <<now, db, rooms, wsAuctionId, readyState, bids, joins, syncs>>

\* ------------------------------------------------- the time-sync handler
\* line 154: new Date(clientTime).getTime() of a string
DateGetTime(clientTime) ==
    IF clientTime.parses THEN Num(clientTime.value) ELSE NaN

\* lines 143-156: the handler has no await, it answers in one step
TimeSync(clientTime) ==
    /\ Len(syncs) < MaxSyncs
    /\ syncs' = Append(syncs,
          IF clientTime.type # "number" /\ clientTime.type # "string"
          THEN [request |-> clientTime, result |-> "InvalidInput",
                serverTime |-> 0, clientTime |-> Num(0)]
          ELSE [request |-> clientTime, result |-> "OK",
                serverTime |-> now,
                clientTime |-> IF clientTime.type = "number"
                               THEN Num(clientTime.value)
                               ELSE DateGetTime(clientTime)])
    /\ UNCHANGED <<now, db, rooms, wsAuctionId, readyState, inbox, published, bids, joins, sweeps>>

\* ----------------------------------------------------------------- Next
Next ==
    \/ Tick
    \/ \E s \in Sweeps : Refire(s)
    \/ \E clientTime \in ClientTimes : TimeSync(clientTime)
    \/ \E b \in Bids, id \in RequestIds, isNumber \in BOOLEAN, amount \in Amounts :
          BidStart(b, id, isNumber, amount)
    \/ \E b \in Bids : BidSelect(b)
    \/ \E b \in Bids : BidQueryFails(b)
    \/ \E b \in Bids : BidUpdate(b)
    \/ \E b \in Bids : BidPublish(b)
    \/ \E j \in Joins, ws \in Conns, id \in RequestIds : JoinAuction(j, ws, id)
    \/ \E j \in Joins : JoinSelect(j)
    \/ \E j \in Joins : JoinQueryFails(j)
    \/ \E j \in Joins : JoinSend(j)
    \/ \E ws \in Conns : Close(ws)
    \/ \E s \in Sweeps : SweepSelect(s)
    \/ \E s \in Sweeps : SweepQueryFails(s)
    \/ \E s \in Sweeps : SweepUpdate(s)
    \/ \E s \in Sweeps : SweepPublish(s)

\* the whole server
Spec == Init /\ [][Next]_vars

\* The specifications below are parts of Spec: each lets only some of the
\* handlers run, so each of their behaviours is a behaviour of Spec.  The bid
\* handler and the sweep never read the rooms, and only JoinAuction and Close
\* write them.

\* the clock protocol alone: time passes and time-sync requests are answered
NextClock ==
    \/ Tick
    \/ \E clientTime \in ClientTimes : TimeSync(clientTime)

SpecClock == Init /\ [][NextClock]_vars

\* the store alone: the clock, the bid requests and the sweep
NextStore ==
    \/ Tick
    \/ \E b \in Bids, id \in RequestIds, isNumber \in BOOLEAN, amount \in Amounts :
          BidStart(b, id, isNumber, amount)
    \/ \E b \in Bids : BidSelect(b)
    \/ \E b \in Bids : BidQueryFails(b)
    \/ \E b \in Bids : BidUpdate(b)
    \/ \E b \in Bids : BidPublish(b)
    \/ \E s \in Sweeps : SweepSelect(s)
    \/ \E s \in Sweeps : SweepQueryFails(s)
    \/ \E s \in Sweeps : SweepUpdate(s)
    \/ \E s \in Sweeps : SweepPublish(s)

SpecStore == Init /\ [][NextStore]_vars

\* the room registry alone: joins and closes
NextRooms ==
    \/ \E j \in Joins, ws \in Conns, id \in RequestIds : JoinAuction(j, ws, id)
    \/ \E j \in Joins : JoinSelect(j)
    \/ \E j \in Joins : JoinQueryFails(j)
    \/ \E j \in Joins : JoinSend(j)
    \/ \E ws \in Conns : Close(ws)

SpecRooms == Init /\ [][NextRooms]_vars

\* the fan-out within one instant of the clock: joins, closes and one bid
\* request whose bidUpdate is broadcast
NextFanout ==
    \/ \E j \in Joins, ws \in Conns, id \in RequestIds : JoinAuction(j, ws, id)
    \/ \E j \in Joins : JoinSelect(j)
    \/ \E j \in Joins : JoinQueryFails(j)
    \/ \E j \in Joins : JoinSend(j)
    \/ \E ws \in Conns : Close(ws)
    \/ \E id \in RequestIds, isNumber \in BOOLEAN, amount \in Amounts :
          BidStart(1, id, isNumber, amount)
    \/ BidSelect(1)
    \/ BidQueryFails(1)
    \/ BidUpdate(1)
    \/ BidPublish(1)

SpecFanout == Init /\ [][NextFanout]_vars

\* the broadcast of one accepted bid to the rooms as joins and closes have left
\* them: every joinAuction names an existing auction, the bid request is well
\* formed, the clock stands still
NextBroadcast ==
    \/ \E j \in Joins, ws \in Conns, id \in Auctions : JoinAuction(j, ws, id)
    \/ \E j \in Joins : JoinSelect(j)
    \/ \E j \in Joins : JoinSend(j)
    \/ \E ws \in Conns : Close(ws)
    \/ \E id \in Auctions : BidStart(1, id, TRUE, MaxPrice)
    \/ BidSelect(1)
    \/ BidUpdate(1)
    \/ BidPublish(1)

SpecBroadcast == Init /\ [][NextBroadcast]_vars

\* one bid request alone against the clock and the sweep
NextOneBid ==
    \/ Tick
    \/ \E id \in RequestIds, isNumber \in BOOLEAN, amount \in Amounts :
          BidStart(1, id, isNumber, amount)
    \/ BidSelect(1)
    \/ BidQueryFails(1)
    \/ BidUpdate(1)
    \/ BidPublish(1)
    \/ \E s \in Sweeps : SweepSelect(s)
    \/ \E s \in Sweeps : SweepQueryFails(s)
    \/ \E s \in Sweeps : SweepUpdate(s)
    \/ \E s \in Sweeps : SweepPublish(s)

SpecOneBid == Init /\ [][NextOneBid]_vars

\* one observer's view: one joinAuction message, closes, one bid request, the
\* clock and the sweep
NextObserver ==
    \/ Tick
    \/ \E ws \in Conns, id \in RequestIds : JoinAuction(1, ws, id)
    \/ JoinSelect(1)
    \/ JoinQueryFails(1)
    \/ JoinSend(1)
    \/ \E ws \in Conns : Close(ws)
    \/ \E id \in RequestIds, isNumber \in BOOLEAN, amount \in Amounts :
          BidStart(1, id, isNumber, amount)
    \/ BidSelect(1)
    \/ BidQueryFails(1)
    \/ BidUpdate(1)
    \/ BidPublish(1)
    \/ \E s \in Sweeps : SweepSelect(s)
    \/ \E s \in Sweeps : SweepQueryFails(s)
    \/ \E s \in Sweeps : SweepUpdate(s)
    \/ \E s \in Sweeps : SweepPublish(s)

SpecObserver == Init /\ [][NextObserver]_vars

\* the clock advancing only between sweep ticks: every tick has completed
\* before time moves on and the interval fires again
TickAfterSweep ==
    /\ \A s \in Sweeps : sweeps[s].pc \in {"idle", "done", "failed"}
    /\ Tick

\* sweep ticks in succession, none overlapping another, with an observer
\* joining and connections closing; no bid is submitted
NextSweepSeq ==
    \/ TickAfterSweep
    \/ \E s \in Sweeps : SweepSelect(s)
    \/ \E s \in Sweeps : SweepQueryFails(s)
    \/ \E s \in Sweeps : SweepUpdate(s)
    \/ \E s \in Sweeps : SweepPublish(s)
    \/ \E ws \in Conns, id \in RequestIds : JoinAuction(1, ws, id)
    \/ JoinSelect(1)
    \/ JoinQueryFails(1)
    \/ JoinSend(1)
    \/ \E ws \in Conns : Close(ws)

SpecSweepSeq == Init /\ [][NextSweepSeq]_vars

\* one bid request against a sweep that never stops firing
NextLive ==
    \/ Tick
    \/ \E s \in Sweeps : Refire(s)
    \/ \E id \in RequestIds, isNumber \in BOOLEAN, amount \in Amounts :
          BidStart(1, id, isNumber, amount)
    \/ BidSelect(1)
    \/ BidQueryFails(1)
    \/ BidUpdate(1)
    \/ BidPublish(1)
    \/ \E s \in Sweeps : SweepSelect(s)
    \/ \E s \in Sweeps : SweepQueryFails(s)
    \/ \E s \in Sweeps : SweepUpdate(s)
    \/ \E s \in Sweeps : SweepPublish(s)

\* Time passes and the timer keeps firing the interval (weak fairness of Tick
\* and Refire); the store is available again and again, so a query of the
\* sweep that is issued again and again is answered at some time (strong
\* fairness of SweepSelect and SweepUpdate, which SweepQueryFails can pre-empt
\* any finite number of times); the code after an await runs once the await
\* has returned (weak fairness of SweepPublish).  Nothing is assumed of the bid
\* request: it may stay suspended at an await for ever.
SpecLive ==
    /\ Init /\ [][NextLive]_vars
    /\ WF_vars(Tick)
    /\ \A s \in Sweeps :
          /\ WF_vars(Refire(s))
          /\ SF_vars(SweepSelect(s))
          /\ SF_vars(SweepUpdate(s))
          /\ WF_vars(SweepPublish(s))

\* ------------------------------------------------------ claims C1 .. C10
Max(S) == CHOOSE x \in S : \A y \in S : y <= x

InFlight(b) == bids[b].pc \in {"select", "update", "publish"}

Accepted(a) == {b \in Bids : bids[b].pc = "done" /\ bids[b].result = "OK" /\ bids[b].id = a}

BidUpdatePrices(a) ==
    SelectSeq(published[a], LAMBDA m : m.type = "bidUpdate")

EndedCount(a) ==
    Len(SelectSeq(published[a], LAMBDA m : m.type = "auctionEnded"))

\* C1: no lost update.  Once the bid requests on an auction have all been
\* answered, the persisted price is the largest amount among the accepted
\* bids: no lower bid has overwritten a higher one.
NoLostUpdate ==
    \A a \in Auctions :
        (Accepted(a) # {} /\ \A b \in Bids : bids[b].id = a => ~InFlight(b))
            => db[a].current_price = Max({bids[b].amount : b \in Accepted(a)})

\* C2: the persisted price never decreases, and every UPDATE of the bid handler
\* stores a price strictly greater than the one stored just before it.
PriceNeverDecreases ==
    [][\A a \in Auctions :
          /\ db'[a].current_price >= db[a].current_price
          /\ (\E b \in Bids : bids[b].id = a /\ bids[b].pc = "update" /\ bids'[b].pc = "publish")
                => db'[a].current_price > db[a].current_price]_vars

\* C3: the newPrice values of the bidUpdate payloads broadcast for one auction
\* are strictly increasing.
BroadcastPricesIncrease ==
    \A a \in Auctions :
        \A i, j \in DOMAIN BidUpdatePrices(a) :
            i < j => BidUpdatePrices(a)[i].price < BidUpdatePrices(a)[j].price

\* C4: an auction is broadcast as auctionEnded at most once in a run.
EndedAtMostOnce == \A a \in Auctions : EndedCount(a) <= 1

\* C5: ended is absorbing: no step takes a row's status from ended to
\* anything else.
EndedIsAbsorbing ==
    [][\A a \in Auctions : db[a].status = "ended" => db'[a].status = "ended"]_vars

\* C10: of two bid requests on one auction that carry the same amount, at most
\* one is accepted.
TieResolution ==
    \A b1, b2 \in Bids :
        (b1 # b2 /\ bids[b1].id = bids[b2].id /\ bids[b1].amount = bids[b2].amount
            /\ bids[b1].pc = "done" /\ bids[b1].result = "OK")
        => ~(bids[b2].pc = "done" /\ bids[b2].result = "OK")

\* the bid request b has taken its `now`, and that instant is later than the
\* end of the auction it names
Late(b) ==
    /\ bids[b].pc \in {"select", "update", "publish", "done"}
    /\ bids[b].result # "InvalidInput"
    /\ bids[b].id \in DOMAIN db
    /\ bids[b].now > DateOf(db[bids[b].id].end_time)

\* C6: closed-window rejection.  A bid request that passed parameter validation
\* at an instant later than the auction's end_time never reaches the UPDATE nor
\* the broadcast, whatever the stored status is; it is answered Closed (or with
\* the store's failure when its SELECT throws).
ClosedWindowRejection ==
    \A b \in Bids :
        Late(b) =>
            /\ bids[b].pc \in {"select", "done"}
            /\ bids[b].pc = "done" => bids[b].result \in {"Closed", "StoreUnavailable"}

\* C6 witness: a late bid was answered Closed while the row is still not ended
TickGapRejection ==
    \E b \in Bids :
        /\ Late(b)
        /\ bids[b].pc = "done"
        /\ bids[b].result = "Closed"
        /\ db[bids[b].id].status # "ended"

\* C7: room isolation.  A bidUpdate or auctionEnded message is sent on a
\* connection only if its auctionId is the connection's associated auction.
RoomIsolation ==
    [][\A c \in Conns :
          Len(inbox'[c]) > Len(inbox[c]) =>
              LET m == inbox'[c][Len(inbox'[c])]
              IN  m.type \in {"bidUpdate", "auctionEnded"} => m.auctionId = wsAuctionId[c]]_vars

\* C8: membership is the inverse of the association: a connection is in
\* rooms[id] exactly when its associated auction id is id (so it is in at most
\* one room).
MembershipIsInverse ==
    \A c \in Conns, id \in RequestIds \ {0} :
        (id \in DOMAIN rooms /\ c \in rooms[id]) <=> wsAuctionId[c] = id

\* C9: the room map holds no entry whose member set is empty.
NoEmptyRoom == \A id \in DOMAIN rooms : rooms[id] # {}

\* C9 witness: a connection that was sent a snapshot (so it had joined a room)
\* has closed, and its leave removed the last entry of the map
LastMemberLeft ==
    \E c \in Conns :
        /\ Len(inbox[c]) > 0
        /\ readyState[c] = "CLOSED"
        /\ DOMAIN rooms = {}

\* ----------------------------------------------------- claims C11 .. C20
NamedFailures == {"InvalidInput", "NotFound", "NotStarted", "Closed", "PriceTooLow"}

\* the requests on auction a that have broadcast / that have written
Casters(a) == {b \in Bids : bids[b].id = a /\ bids[b].casts > 0}
Writers(a) == {b \in Bids : bids[b].id = a /\ bids[b].writes > 0}

\* C11: a bid request answered OK has made exactly one UPDATE and exactly one
\* bidUpdate broadcast; a request answered with a named failure has made no
\* UPDATE and no broadcast.  Every bidUpdate broadcast and every change of a
\* stored price is the one of such a request.
BidFrameEffect ==
    /\ \A b \in Bids :
          /\ bids[b].writes <= 1 /\ bids[b].casts <= 1
          /\ (bids[b].pc = "done" /\ bids[b].result = "OK")
                => (bids[b].writes = 1 /\ bids[b].casts = 1)
          /\ (bids[b].pc = "done" /\ bids[b].result \in NamedFailures)
                => (bids[b].writes = 0 /\ bids[b].casts = 0)
    /\ \A a \in Auctions :
          /\ Len(BidUpdatePrices(a)) = Cardinality(Casters(a))
          /\ db[a].current_price # InitRow(a).current_price
                => \E b \in Writers(a) : bids[b].amount = db[a].current_price

\* a request was answered OK: its amount is the stored price and its bidUpdate
\* is the only one broadcast for the auction
AcceptedBidWroteOnce ==
    \E b \in Bids :
        /\ bids[b].pc = "done" /\ bids[b].result = "OK"
        /\ db[bids[b].id].current_price = bids[b].amount
        /\ Len(BidUpdatePrices(bids[b].id)) = 1

\* C12 as stated: a request for an auction id that has no row is answered
\* NotFound whatever its amount (unless the store fails)
UnknownAuctionIsNotFound ==
    \A b \in Bids :
        (bids[b].pc = "done" /\ bids[b].id # 0 /\ bids[b].id \notin DOMAIN db)
            => bids[b].result \in {"NotFound", "StoreUnavailable"}

\* the checks a request r passes on the rows of the store, in the handler's order
Known(r)   == r.id \in DOMAIN db
Started(r) == Known(r) /\ r.now >= DateOf(db[r.id].start_time)
Open(r)    == Started(r) /\ r.now <= DateOf(db[r.id].end_time) /\ db[r.id].status # "ended"
Higher(r)  == Open(r) /\ r.amount > db[r.id].current_price

\* C12, amended: the parameters are validated before any lookup (a falsy id,
\* an amount that is not a number or not positive: InvalidInput); then the
\* first failing of NotFound, NotStarted, Closed, PriceTooLow is reported, each
\* judged on the row the SELECT returned; a request passing all goes on to the
\* UPDATE.
ValidationThenLookupOrder ==
    [][\A b \in Bids :
        /\ (bids[b].pc = "idle" /\ bids'[b].pc # "idle")
              => ((bids'[b].pc = "done" /\ bids'[b].result = "InvalidInput")
                    <=> (bids'[b].id = 0 \/ ~bids'[b].isNumber \/ bids'[b].amount <= 0))
        /\ (bids[b].pc = "select" /\ bids'[b].pc # "select"
               /\ bids'[b].result # "StoreUnavailable")
              => /\ (bids'[b].result = "NotFound")    <=> ~Known(bids[b])
                 /\ (bids'[b].result = "NotStarted")  <=> (Known(bids[b]) /\ ~Started(bids[b]))
                 /\ (bids'[b].result = "Closed")      <=> (Started(bids[b]) /\ ~Open(bids[b]))
                 /\ (bids'[b].result = "PriceTooLow") <=> (Open(bids[b]) /\ ~Higher(bids[b]))
                 /\ (bids'[b].pc = "update")          <=> Higher(bids[b])
    ]_vars

\* a request with a non-positive amount for an auction id that has no row was
\* answered InvalidInput
InvalidAmountOnUnknownAuction ==
    \E b \in Bids :
        /\ bids[b].pc = "done" /\ bids[b].result = "InvalidInput"
        /\ bids[b].id # 0 /\ bids[b].id \notin DOMAIN db
        /\ bids[b].isNumber /\ bids[b].amount <= 0

\* C13: no connection receives a bidUpdate for an auction after it has
\* received the auctionEnded of that auction
NoBidUpdateAfterEnded ==
    \A c \in Conns : \A i, j \in 1..Len(inbox[c]) :
        (i < j /\ inbox[c][i].type = "auctionEnded")
            => ~(inbox[c][j].type = "bidUpdate"
                   /\ inbox[c][j].auctionId = inbox[c][i].auctionId)

\* C14: a joinAuction message whose auction id is falsy or has no row leaves
\* the rooms and the connection's auction id as they were
InvalidJoinIsNoOp ==
    [][\A j \in Joins :
        (joins[j].pc = "idle" /\ joins'[j].pc # "idle" /\ joins'[j].id \notin DOMAIN db)
            => UNCHANGED <<rooms, wsAuctionId>>
    ]_vars

\* the rows a tick in flight has still to update
Pending(s) ==
    IF sweeps[s].pc = "update" THEN sweeps[s].rows
    ELSE IF sweeps[s].pc = "publish" THEN Tail(sweeps[s].rows)
    ELSE <<>>

\* a tick has updated auction a and not yet broadcast it
Publishing(a) == \E s \in Sweeps : sweeps[s].pc = "publish" /\ Head(sweeps[s].rows) = a

EndedReceived(c, a) ==
    Len(SelectSeq(inbox[c], LAMBDA m : m.type = "auctionEnded" /\ m.auctionId = a))

\* C15: when each sweep tick starts after the one before has completed, an
\* auction is moved to ended once and its auctionEnded is broadcast once: the
\* broadcast count is 1 exactly when the row is ended and the tick that ended
\* it has published, no connection receives it twice, and no later tick has
\* an ended row among the rows it will update.
SequentialSweepIdempotent ==
    \A a \in Auctions :
        /\ EndedCount(a) = IF db[a].status = "ended" /\ ~Publishing(a) THEN 1 ELSE 0
        /\ \A c \in Conns : EndedReceived(c, a) <= 1
        /\ \A s \in Sweeps : \A i \in 1..Len(Pending(s)) :
              db[Pending(s)[i]].status # "ended"

\* a tick found rows to end and left out an earlier-expiring auction that a
\* completed tick had ended and broadcast once
SecondTickSkipsEnded ==
    \E s \in Sweeps, a \in Auctions :
        /\ sweeps[s].pc = "update" /\ a < Head(sweeps[s].rows)
        /\ db[a].status = "ended" /\ EndedCount(a) = 1

\* C16: a time-sync request whose clientTime is absent or neither a number nor
\* a string is refused with InvalidInput; any other is answered with the
\* server's now, never earlier than an earlier answer's, and with a clientTime
\* equal to the one sent
ClockRoundTrip ==
    /\ \A i \in 1..Len(syncs) :
          IF syncs[i].request.type \in {"number", "string"}
          THEN /\ syncs[i].result = "OK"
               /\ syncs[i].serverTime <= now
               /\ ~syncs[i].clientTime.nan
               /\ syncs[i].clientTime.value = syncs[i].request.value
          ELSE syncs[i].result = "InvalidInput"
    /\ \A i, j \in 1..Len(syncs) :
          (i < j /\ syncs[i].result = "OK" /\ syncs[j].result = "OK")
              => syncs[i].serverTime <= syncs[j].serverTime

\* C17: a bidUpdate for price p on auction a is handed to the broadcast only
\* by a request whose UPDATE of a to p has completed, and an auctionEnded for a
\* only by a tick whose UPDATE of a to ended has completed; each in a step
\* after the one of the UPDATE
PublishAfterCommit ==
    [][\A a \in Auctions :
        published'[a] # published[a]
            => LET m == published'[a][Len(published'[a])]
               IN  /\ published'[a] = Append(published[a], m)
                   /\ m.type = "bidUpdate"
                         => \E b \in Bids : /\ bids[b].id = a /\ bids[b].amount = m.price
                                            /\ bids[b].writes = 1 /\ bids[b].casts = 0
                   /\ m.type = "auctionEnded"
                         => \E s \in Sweeps : sweeps[s].wrote = a
    ]_vars

\* an auction for which both a bidUpdate and an auctionEnded were broadcast
BothKindsPublished ==
    \E a \in Auctions : Len(BidUpdatePrices(a)) > 0 /\ EndedCount(a) > 0

\* end_time of auction a has been reached on the server clock
Reached(a) == now >= DateOf(db[a].end_time)

\* C18: with the interval firing for ever and the store answering again and
\* again, every auction whose end_time has been reached is, from some time
\* on, ended for ever
ExpiryLiveness ==
    \A a \in Auctions : [](Reached(a) => <>[](db[a].status = "ended"))

\* an expired auction is ended, after its auctionEnded, a bidUpdate and a
\* second auctionEnded were broadcast in that order
EndedAgainAfterBid ==
    \E a \in Auctions :
        /\ Reached(a) /\ db[a].status = "ended"
        /\ \E i, j, k \in 1..Len(published[a]) :
              /\ i < j /\ j < k
              /\ published[a][i].type = "auctionEnded"
              /\ published[a][j].type = "bidUpdate"
              /\ published[a][k].type = "auctionEnded"

\* C19: a closed connection is a member of no room
ClosedConnectionInNoRoom ==
    \A c \in Conns :
        readyState[c] = "CLOSED" => \A id \in DOMAIN rooms : c \notin rooms[id]

\* a tick has ended in the catch and its instance has not fired again
TickFailed == \E s \in Sweeps : sweeps[s].pc = "failed"

\* every bid request can take its next step, and a new one can be submitted
BidsNotBlocked ==
    \A b \in Bids :
        /\ bids[b].pc = "select"  => ENABLED BidSelect(b)
        /\ bids[b].pc = "update"  => ENABLED BidUpdate(b)
        /\ bids[b].pc = "publish" => ENABLED BidPublish(b)
        /\ (bids[b].pc = "idle" /\ \A other \in Bids : other < b => bids[other].pc # "idle")
              => ENABLED (\E id \in RequestIds, isNumber \in BOOLEAN, amount \in Amounts :
                             BidStart(b, id, isNumber, amount))

\* C20: after a tick has failed, an expired auction that is not ended is ended
\* by a later tick, and while a tick has failed no bid request is held up
SweeperSurvivesFailure ==
    /\ \A a \in Auctions :
          []((TickFailed /\ Reached(a) /\ db[a].status # "ended")
                => <>(db[a].status = "ended"))
    /\ [](TickFailed => BidsNotBlocked)

\* the tick of instance s failed on auction a, expired when it fired; a later
\* instance has just ended a, never ended before; a bid was accepted meanwhile
LaterTickEndsAfterFailure ==
    \E s, t \in Sweeps, a \in Auctions :
        /\ s < t /\ sweeps[s].pc = "failed"
        /\ db[a].end_time <= formatDateTime(s * SweepInterval)
        /\ sweeps[t].pc = "publish" /\ sweeps[t].wrote = a /\ EndedCount(a) = 0
        /\ \E b \in Bids : bids[b].pc = "done" /\ bids[b].result = "OK"

\* C21: a payload handed to the broadcast for auction a is appended once to
\* the messages of every connection that is in the room of a and OPEN, and to
\* no other; a member that is not OPEN gets nothing, then or later; with no
\* room for a nothing is sent; the rooms, the connections and the store are
\* left as they were
BroadcastDelivery ==
    [][\A a \in Auctions :
        published'[a] # published[a]
            => LET m == published'[a][Len(published'[a])]
               IN  /\ \A c \in Conns :
                         inbox'[c] = IF /\ a \in DOMAIN rooms
                                        /\ c \in rooms[a]
                                        /\ readyState[c] = "OPEN"
                                     THEN Append(inbox[c], m)
                                     ELSE inbox[c]
                   /\ UNCHANGED <<rooms, wsAuctionId, readyState, db>>
    ]_vars

\* a bidUpdate was broadcast to a room that holds a closed connection, which
\* was sent nothing
ClosedMemberSkipped ==
    \E a \in Auctions, c \in Conns :
        /\ a \in DOMAIN rooms /\ c \in rooms[a] /\ readyState[c] = "CLOSED"
        /\ Len(BidUpdatePrices(a)) > 0
        /\ \A i \in 1..Len(inbox[c]) : inbox[c][i].type # "bidUpdate"

\* C22: no step changes the stored price of an auction whose stored status is
\* ended
EndedPriceIsFinal ==
    [][\A a \in Auctions :
        db[a].status = "ended" => db'[a].current_price = db[a].current_price
    ]_vars

\* the prices of auction a that connection c has been sent, in order: those of
\* the auctionData snapshots and of the bidUpdates
PricesShown(c, a) ==
    SelectSeq(inbox[c], LAMBDA m : /\ m.auctionId = a
                                   /\ m.type \in {"auctionData", "bidUpdate"})

\* C23: for every connection and auction, no message carries a lower price
\* than a message delivered to the connection before it
ShownPriceNeverDecreases ==
    \A c \in Conns, a \in Auctions :
        \A i, j \in 1..Len(PricesShown(c, a)) :
            i < j => PricesShown(c, a)[i].price <= PricesShown(c, a)[j].price

====
